---- MODULE Spec2Model ----
(***************************************************************************)
(* State-machine model of the ar-debug-workbench rendering / interaction   *)
(* engine: the per-surface gesture handlers of ardw-app/static/render.js   *)
(* and the projector page's socket handlers (unnamed/part_001).            *)
(*                                                                         *)
(* Numbers.  JavaScript numbers are modelled as extended rationals         *)
(* <<n, d>>: d > 0 is the finite value n/d in lowest terms, <<1, 0>> is    *)
(* +Infinity, <<-1, 0>> is -Infinity and <<0, 0>> is NaN.  Arithmetic      *)
(* follows IEEE-754 on these (x/0, 0/0, Infinity*0, Infinity-Infinity);    *)
(* rounding and the sign of zero are not tracked.                          *)
(***************************************************************************)
EXTENDS Integers, Sequences, FiniteSets, TLC

(***************************************************************************)
(* Bounds of the model.                                                    *)
(***************************************************************************)
\* events handled in one behaviour
MaxEvents == 5
\* largest clock value, in milliseconds
MaxNow == 1000
\* length of the multi-touch runs
MaxTouchEvents == 6

(***************************************************************************)
(* Extended rational arithmetic.                                           *)
(***************************************************************************)
Abs(n) == IF n < 0 THEN -n ELSE n

Sign(n) == IF n > 0 THEN 1 ELSE IF n < 0 THEN -1 ELSE 0

Gcd[a \in Nat, b \in Nat] == IF b = 0 THEN a ELSE Gcd[b, a % b]

\* n/d with d >= 0, brought to lowest terms (d = 0: an infinity or NaN)
Lowest[n \in Int, d \in Nat] ==
  IF d = 0 THEN <<Sign(n), 0>>
  ELSE <<Sign(n) * (Abs(n) \div Gcd[Abs(n), d]), d \div Gcd[Abs(n), d]>>

Norm(n, d) == Lowest[n, d]

R(n) == <<n, 1>>
Frac(n, d) == Norm(n, d)
NaN == <<0, 0>>
PosInf == <<1, 0>>
NegInf == <<-1, 0>>

IsNaN(x) == x = NaN
IsInf(x) == x[2] = 0 /\ x[1] # 0
IsFinite(x) == x[2] > 0

RNeg(x) == <<-x[1], x[2]>>

RAdd(x, y) ==
  IF IsInf(x) /\ IsInf(y)
  THEN (IF x = y THEN x ELSE NaN)
  ELSE IF x[2] = 0 \/ y[2] = 0
  THEN Norm(x[1] * y[2] + y[1] * x[2], 0)
  ELSE Norm(x[1] * (y[2] \div Gcd[x[2], y[2]]) + y[1] * (x[2] \div Gcd[x[2], y[2]]),
            (x[2] \div Gcd[x[2], y[2]]) * y[2])

RSub(x, y) == RAdd(x, RNeg(y))

RMul(x, y) == Norm(x[1] * y[1], x[2] * y[2])

RRecip(x) ==
  IF x[1] > 0 THEN <<x[2], x[1]>>
  ELSE IF x[1] < 0 THEN <<-x[2], -x[1]>>
  ELSE <<x[2], 0>>

RDiv(x, y) == RMul(x, RRecip(y))

RLt(x, y) ==
  IF IsNaN(x) \/ IsNaN(y) THEN FALSE
  ELSE IF IsInf(x) /\ IsInf(y) THEN x[1] < y[1]
  ELSE x[1] * y[2] < y[1] * x[2]

RGt(x, y) == RLt(y, x)

RAbs(x) == <<Abs(x[1]), x[2]>>

\* Math.min / Math.max of two numbers (NaN if either is NaN)
RMin(x, y) == IF IsNaN(x) \/ IsNaN(y) THEN NaN ELSE IF RLt(y, x) THEN y ELSE x
RMax(x, y) == IF IsNaN(x) \/ IsNaN(y) THEN NaN ELSE IF RLt(x, y) THEN y ELSE x

\* x to an integer power k
Power[x \in Int \X Nat, k \in Int] ==
  IF k = 0 THEN R(1)
  ELSE IF k < 0 THEN RRecip(Power[x, -k])
  ELSE RMul(x, Power[x, k - 1])

RPow(x, k) == Power[x, k]

\* Math.sqrt on the perfect squares the pointer grid produces
Sqrt(n) == CHOOSE r \in 0..n : r * r = n

(***************************************************************************)
(* JavaScript values that cross the socket or sit in the Selection: a      *)
(* number, a string (a sequence of characters), NaN or null.               *)
(***************************************************************************)
Num(n) == [t |-> "num", n |-> n, s |-> <<>>]
Str(s) == [t |-> "str", n |-> 0, s |-> s]
NaNVal == [t |-> "nan", n |-> 0, s |-> <<>>]
Null == [t |-> "null", n |-> 0, s |-> <<>>]

DigitChars == {"0", "1", "2", "3", "4", "5", "6", "7", "8", "9"}

DigitVal(c) ==
  CASE c = "0" -> 0 [] c = "1" -> 1 [] c = "2" -> 2 [] c = "3" -> 3
    [] c = "4" -> 4 [] c = "5" -> 5 [] c = "6" -> 6 [] c = "7" -> 7
    [] c = "8" -> 8 [] c = "9" -> 9

RECURSIVE LeadingDigits(_, _)
\* value of the longest prefix of digits of s, continuing from acc
LeadingDigits(s, acc) ==
  IF s = <<>> \/ Head(s) \notin DigitChars THEN acc
  ELSE LeadingDigits(Tail(s), 10 * acc + DigitVal(Head(s)))

\* parseInt(v): a number is truncated (here: integers only), a string yields
\* its leading digits, or NaN when it has none
parseInt(v) ==
  IF v.t = "num" THEN v
  ELSE IF v.t = "str" /\ v.s # <<>> /\ Head(v.s) \in DigitChars
       THEN Num(LeadingDigits(v.s, 0))
  ELSE NaNVal

(***************************************************************************)
(* The documents (external, read-only) and the environment.                *)
(***************************************************************************)
Surfaces == {"F", "B", "S"}
Layouts == {"F", "B"}

\* keys of compdict (refids), indices of pindict, keys of netdict
compdict == {1, 2}
pindict == {0, 1}
GND == <<"G", "N", "D">>
VCC == <<"V", "C", "C">>
netdict == {GND, VCC}

\* pcbdata.edges_bbox and the dimensions of the displayed schematic sheet
edges_bbox == [minx |-> R(0), miny |-> R(0), maxx |-> R(40), maxy |-> R(20)]
sheetDimensions == [x |-> R(200), y |-> R(100)]

\* window.devicePixelRatio of the display
devicePixelRatio == 1

\* the schematic zoom set when the sheet is loaded
sch_zoom_default == Frac(1, 2)

\* clientWidth x clientHeight (times devicePixelRatio) of each surface's div
CanvasSize(s) == IF s = "S" THEN <<R(120), R(80)>> ELSE <<R(100), R(60)>>

(***************************************************************************)
(* Inputs.                                                                 *)
(***************************************************************************)
Pointers == {1, 2}
\* offsetX/offsetY of pointer events: corners of a 3-4-5 triangle, so that
\* every distance between two of them is an integer
Points == {<<0, 0>>, <<3, 0>>, <<3, 4>>}
\* release positions of the press-and-release runs, after a press at <<0, 0>>:
\* 0, 9 and 10 pixels of travel
TapPoints == {<<0, 0>>, <<4, 5>>, <<5, 5>>}
Buttons == {0, 1, 2}
\* clock advance between two events, in milliseconds
TickSteps == {500}
\* wheel events: <<deltaY, deltaMode>>
WheelInputs == {<<-40, 0>>, <<2, 2>>}

\* selection messages {type, val}
SelectionMsgs ==
  [type : {"comp"}, val : {Num(1), Str(<<"2", "x">>), Num(7), Str(<<"x">>)}]
    \cup [type : {"pin"}, val : {Num(1), Num(5)}]
    \cup [type : {"net"}, val : {Str(GND), Str(<<"N", "C">>)}]
    \cup [type : {"deselect"}, val : {Null}]

\* projector-adjust messages {type, val}
AdjustMsgs ==
  [type : {"tx"}, val : {R(0), R(5)}]
    \cup [type : {"ty"}, val : {R(0), R(-3)}]
    \cup [type : {"z"}, val : {R(1), Frac(1, 2)}]
    \cup [type : {"r"}, val : {R(0), R(90), R(7)}]

\* values of the rotation slider, in steps of 5 degrees
RotationInputs == {0, 18}

\* udp messages {boardpos_pixel, tippos_pixel}
UdpMsgs == [boardpos_pixel : {<<R(5), R(-3)>>}, tippos_pixel : {<<R(4), R(6)>>}]
             \cup [boardpos_pixel : {<<R(0), R(0)>>}, tippos_pixel : {<<R(0), R(0)>>}]

(***************************************************************************)
(* State.                                                                  *)
(***************************************************************************)
VARIABLES
  pointerStates,        \* per surface: pointerId -> {distanceTravelled, lastX, lastY, downTime}
  anotherPointerTapped, \* per surface: the two-finger-tap flag
  layerTransform,       \* per surface: layerdict.transform {x, y, s, panx, pany, zoom}
  ibom_settings,        \* redrawOnDrag, boardRotation, renderEdgeCuts, renderPads
  transform,            \* the projector view transform {tx, ty, r, z}
  current_selection,    \* {type, val}
  draw_crosshair,       \* crosshair flag
  target_boxes,         \* per surface: crosshair target box or null
  udp_selection,        \* mapped tip position of the last tracking sample, or null
  now,                  \* Date.now()
  last,                 \* history: what the last handled event did
  sawTap,               \* history, per surface: recorded pointers that were down
                        \* while another pointer completed a qualifying tap
  heldAtTap,            \* history, per surface: the pointers left recorded by a
                        \* qualifying tap release, if that was the surface's last
                        \* down/up/leave event
  lastAdjust,           \* history: per component, the value of the last
                        \* projector-adjust message that named it
  lastSample,           \* history: the last tracking sample handled, if any
  phase,                \* window.onload: "loading", "ready" or "failed"
  inflight,             \* projector-adjust messages emitted and not yet relayed back
  calc,                 \* a function of the rendering code applied on its own:
                        \* its name, its argument and, once applied, its result
  history,              \* history: the event before the last one, and the
                        \* transforms and pointer maps before each of the two
  nev                   \* history: number of events handled

progVars == <<pointerStates, anotherPointerTapped, layerTransform, ibom_settings,
              transform, current_selection, draw_crosshair, target_boxes,
              udp_selection, now>>
vars == <<pointerStates, anotherPointerTapped, layerTransform, ibom_settings,
          transform, current_selection, draw_crosshair, target_boxes,
          udp_selection, now, last, sawTap, heldAtTap, lastAdjust, lastSample,
          phase, inflight, calc, history, nev>>

\* what the event handlers leave alone: the load phase, the channel to the
\* server and the event count
envVars == <<phase, inflight, calc, history, nev>>

NoCount == [s \in Surfaces |-> 0]
NoSelMsg == [type |-> "", val |-> Null]
NoAdjMsg == [type |-> "", val |-> NaN]
NoSample == [boardpos_pixel |-> <<NaN, NaN>>, tippos_pixel |-> <<NaN, NaN>>]
NoCalc == [fn |-> "", arg |-> <<>>, res |-> <<>>]

\* the record of an event of the given kind that did nothing
Ev(kind) ==
  [kind |-> kind, s |-> "-", p |-> 0, button |-> -1, pt |-> <<0, 0>>,
   tracked |-> FALSE, travel |-> 0, elapsed |-> 0, n |-> 0,
   prior |-> FALSE, partner |-> FALSE,
   picks |-> <<>>, resets |-> 0, hl |-> NoCount, bg |-> NoCount,
   threw |-> FALSE, logged |-> FALSE, emitted |-> <<>>,
   sel |-> NoSelMsg, adj |-> NoAdjMsg, failed |-> {}]

NoHistory == [ev |-> Ev("none"), before |-> <<>>]

(***************************************************************************)
(* TransformModel (render.js).                                             *)
(***************************************************************************)
\* Math.cos / Math.sin of an angle in degrees: exact on the multiples of 90,
\* rounded to two decimals on the other angles the inputs contain
DegCos(a) ==
  IF IsFinite(a) /\ a[2] = 1 /\ a[1] % 90 = 0
  THEN (CASE (a[1] \div 90) % 4 = 0 -> R(1) [] (a[1] \div 90) % 4 = 2 -> R(-1)
          [] OTHER -> R(0))
  ELSE IF a = R(7) THEN Frac(99, 100)
  ELSE NaN

DegSin(a) ==
  IF IsFinite(a) /\ a[2] = 1 /\ a[1] % 90 = 0
  THEN (CASE (a[1] \div 90) % 4 = 1 -> R(1) [] (a[1] \div 90) % 4 = 3 -> R(-1)
          [] OTHER -> R(0))
  ELSE IF a = R(7) THEN Frac(3, 25)
  ELSE NaN

rotateVector(v, angle) ==
  <<RSub(RMul(v[1], DegCos(angle)), RMul(v[2], DegSin(angle))),
    RAdd(RMul(v[1], DegSin(angle)), RMul(v[2], DegCos(angle)))>>

Min4(a, b, c, d) == RMin(RMin(a, b), RMin(c, d))
Max4(a, b, c, d) == RMax(RMax(a, b), RMax(c, d))

\* the bounding box of the four rotated corners
CornerBounds(c1, c2, c3, c4) ==
  [minx |-> Min4(c1[1], c2[1], c3[1], c4[1]),
   miny |-> Min4(c1[2], c2[2], c3[2], c4[2]),
   maxx |-> Max4(c1[1], c2[1], c3[1], c4[1]),
   maxy |-> Max4(c1[2], c2[2], c3[2], c4[2])]

applyRotation(bbox, boardRotation) ==
  CornerBounds(rotateVector(<<bbox.minx, bbox.miny>>, boardRotation),
               rotateVector(<<bbox.minx, bbox.maxy>>, boardRotation),
               rotateVector(<<bbox.maxx, bbox.miny>>, boardRotation),
               rotateVector(<<bbox.maxx, bbox.maxy>>, boardRotation))

\* a variant without the guard
ScaleFactor_NoGuard(naive) == naive

\* scalefactor: 0.98 times the smaller of the two fits, or 1 when that is
\* below 0.1
ScaleFactor(naive) == IF RLt(naive, Frac(1, 10)) THEN R(1) ELSE naive

FitScale(bbox, width, height) ==
  ScaleFactor(RMul(Frac(98, 100),
                   RMin(RDiv(width, RSub(bbox.maxx, bbox.minx)),
                        RDiv(height, RSub(bbox.maxy, bbox.miny)))))

\* transform.s, .x and .y for the box bbox shown at scalefactor
FitOffsets(s, bbox, scalefactor, width, height) ==
  [s |-> scalefactor,
   x |-> IF s = "B"
         THEN RMul(RNeg(RAdd(RMul(RAdd(bbox.maxx, bbox.minx), scalefactor), width)),
                   Frac(1, 2))
         ELSE RMul(RNeg(RSub(RMul(RAdd(bbox.maxx, bbox.minx), scalefactor), width)),
                   Frac(1, 2)),
   y |-> RMul(RNeg(RSub(RMul(RAdd(bbox.maxy, bbox.miny), scalefactor), height)),
              Frac(1, 2))]

FitBox(s, bbox, width, height) ==
  FitOffsets(s, bbox, FitScale(bbox, width, height), width, height)

\* transform.s, .x and .y after recalcLayerScale(layerdict, width, height, rotate)
recalcLayerScale(s, width, height, rotate, boardRotation) ==
  FitBox(s, IF rotate THEN applyRotation(edges_bbox, boardRotation) ELSE edges_bbox,
         width, height)

\* the board rotations the inputs can set
Rotations ==
  {R(0)} \cup {a.val : a \in {m \in AdjustMsgs : m.type = "r"}}
         \cup {R(v * 5) : v \in RotationInputs}

\* resizeCanvas computes x, y and s from the surface and the board rotation
\* alone: its results, tabulated over the rotations that occur
resizeCanvasTable ==
  {<<s, r, recalcLayerScale(s, CanvasSize(s)[1], CanvasSize(s)[2], s # "S", r)>> :
     s \in Surfaces, r \in Rotations}

\* the transform t with s, x and y replaced by those of fit
WithFit(t, fit) == [t EXCEPT !.x = fit.x, !.y = fit.y, !.s = fit.s]

\* the transform of surface s after resizeCanvas(layerdict)
resizeCanvas(s, t, boardRotation) ==
  WithFit(t, (CHOOSE e \in resizeCanvasTable : e[1] = s /\ e[2] = boardRotation)[3])

\* prepareCanvas without flip and rotation: where the point <<qx, qy>> of the
\* drawing lands on the canvas under the transform t
CanvasPoint(t, qx, qy) ==
  <<RMul(t.zoom, RAdd(RAdd(t.panx, t.x), RMul(t.s, qx))),
    RMul(t.zoom, RAdd(RAdd(t.pany, t.y), RMul(t.s, qy)))>>

\* a variant that sizes the viewport with the zoom found, not the default
resetTransform_StaleZoom(s, t) ==
  IF s = "S"
  THEN LET vw == RDiv(CanvasSize(s)[1], RMul(t.zoom, t.s))
           vh == RDiv(CanvasSize(s)[2], RMul(t.zoom, t.s))
           centerx == RDiv(sheetDimensions.x, R(2))
           centery == RDiv(sheetDimensions.y, R(2))
       IN [t EXCEPT
             !.zoom = sch_zoom_default,
             !.panx = RSub(RMul(RSub(RDiv(vw, R(2)), centerx), t.s), t.x),
             !.pany = RSub(RMul(RSub(RDiv(vh, R(2)), centery), t.s), t.y)]
  ELSE [t EXCEPT !.panx = R(0), !.pany = R(0), !.zoom = R(1)]

\* the transform of surface s after resetTransform(layerdict)
resetTransform(s, t) ==
  IF s = "S"
  THEN LET zoom == sch_zoom_default
           vw == RDiv(CanvasSize(s)[1], RMul(zoom, t.s))
           vh == RDiv(CanvasSize(s)[2], RMul(zoom, t.s))
           centerx == RDiv(sheetDimensions.x, R(2))
           centery == RDiv(sheetDimensions.y, R(2))
       IN [t EXCEPT
             !.zoom = zoom,
             !.panx = RSub(RMul(RSub(RDiv(vw, R(2)), centerx), t.s), t.x),
             !.pany = RSub(RMul(RSub(RDiv(vh, R(2)), centery), t.s), t.y)]
  ELSE [t EXCEPT !.panx = R(0), !.pany = R(0), !.zoom = R(1)]

\* a variant that draws the surface twice
RedrawOf_Twice(s, count) == [count EXCEPT ![s] = @ + 2]

\* redrawCanvas(layerdict): one background and one highlight redraw of s
RedrawOf(s, count) == [count EXCEPT ![s] = @ + 1]

\* the transforms set up by initRender, before the first resizeAll
initRender ==
  [s \in Surfaces |->
     [x |-> R(0), y |-> R(0), s |-> R(1), panx |-> R(0), pany |-> R(0),
      zoom |-> IF s = "S" THEN sch_zoom_default ELSE R(1)]]

(***************************************************************************)
(* GestureController (render.js).                                          *)
(***************************************************************************)
\* a variant that counts no more than two pointers
NumPointers_AtMostTwo(s) ==
  IF Cardinality(DOMAIN pointerStates[s]) > 2 THEN 2
  ELSE Cardinality(DOMAIN pointerStates[s])

\* Object.keys(layerdict.pointerStates).length
NumPointers(s) == Cardinality(DOMAIN pointerStates[s])

\* delete layerdict.pointerStates[e.pointerId]
DeletePointer(ps, p) == [q \in (DOMAIN ps) \ {p} |-> ps[q]]

\* layerdict.pointerStates[e.pointerId] = st
PutPointer(ps, p, st) == [q \in (DOMAIN ps) \cup {p} |-> IF q = p THEN st ELSE ps[q]]

\* Math.abs(e.offsetX - ptr.lastX) + Math.abs(e.offsetY - ptr.lastY)
StepLength(ptr, pt) == Abs(pt[1] - ptr.lastX) + Abs(pt[2] - ptr.lastY)

\* variant: a travel of exactly 10 still counts as a tap
IsTap_Inclusive(button, distanceTravelled, elapsed) ==
  button = 0 /\ distanceTravelled <= 10 /\ elapsed <= 500

\* the tap test of handlePointerUp
IsTap(button, distanceTravelled, elapsed) ==
  button = 0 /\ distanceTravelled < 10 /\ elapsed <= 500

\* variant: the flag is not consulted
TapOutcome_NoTwoFinger(n, tapped) == IF n = 1 THEN "pick" ELSE "pending"

\* what a tap release does, from the number of recorded pointers (the released
\* one included) and the surface's flag
TapOutcome(n, tapped) ==
  IF n = 1 THEN (IF tapped THEN "reset" ELSE "pick") ELSE "pending"

\* the guard "scaleFactor != NaN" of handlePointerMove: != is true of every
\* pair of numbers one of which is NaN
ScaleAccepted(scaleFactor) == TRUE

\* the transform after the drag branch of handlePointerMove
PanBy(t, dx, dy) ==
  [t EXCEPT
     !.panx = RAdd(@, RDiv(RMul(R(devicePixelRatio), R(dx)), t.zoom)),
     !.pany = RAdd(@, RDiv(RMul(R(devicePixelRatio), R(dy)), t.zoom))]

\* the transform after zooming by factor m about the point <<ax, ay>>
ZoomAbout(t, m, ax, ay) ==
  LET zoom == RMul(t.zoom, m)
      zoomd == RDiv(RSub(R(1), m), zoom)
  IN [t EXCEPT
        !.zoom = zoom,
        !.panx = RAdd(@, RMul(RMul(R(devicePixelRatio), R(ax)), zoomd)),
        !.pany = RAdd(@, RMul(RMul(R(devicePixelRatio), R(ay)), zoomd))]

\* a variant that measures the old distance from the event position
PinchBy_FromEvent(t, thisPtr, otherPtr, pt) ==
  LET newDist == Sqrt((pt[1] - otherPtr.lastX) * (pt[1] - otherPtr.lastX)
                      + (pt[2] - otherPtr.lastY) * (pt[2] - otherPtr.lastY))
      scaleFactor == RDiv(R(newDist), R(newDist))
  IN IF ScaleAccepted(scaleFactor)
     THEN ZoomAbout(t, scaleFactor, otherPtr.lastX, otherPtr.lastY)
     ELSE t

\* the transform after the two-pointer branch of handlePointerMove
PinchBy(t, thisPtr, otherPtr, pt) ==
  LET oldDist == Sqrt((thisPtr.lastX - otherPtr.lastX) * (thisPtr.lastX - otherPtr.lastX)
                      + (thisPtr.lastY - otherPtr.lastY) * (thisPtr.lastY - otherPtr.lastY))
      newDist == Sqrt((pt[1] - otherPtr.lastX) * (pt[1] - otherPtr.lastX)
                      + (pt[2] - otherPtr.lastY) * (pt[2] - otherPtr.lastY))
      scaleFactor == RDiv(R(newDist), R(oldDist))
  IN IF ScaleAccepted(scaleFactor)
     THEN ZoomAbout(t, scaleFactor, otherPtr.lastX, otherPtr.lastY)
     ELSE t

\* the zoom factor of a wheel event: 1.1^(-wheeldelta / 40) limited to [0.5, 2]
\* (1.1^8 > 2, so beyond eight steps the limit is taken without the power)
WheelFactor(deltaY, deltaMode) ==
  LET wheeldelta == IF deltaMode = 1 THEN deltaY * 30
                    ELSE IF deltaMode = 2 THEN deltaY * 300 ELSE deltaY
      k == (0 - wheeldelta) \div 40
      m == IF k >= 8 THEN R(2) ELSE IF k <= -8 THEN Frac(1, 2)
           ELSE RPow(Frac(11, 10), k)
  IN IF RGt(m, R(2)) THEN R(2) ELSE IF RLt(m, Frac(1, 2)) THEN Frac(1, 2) ELSE m

\* what the spatial index may return for a pick: nothing, or an entity
PickResults == {[type |-> "null", val |-> Null], [type |-> "comp", val |-> Num(1)]}

\* handleMouseClick(e, layerdict): the Selection after a pick that hit `hit`
handleMouseClick(sel, hit) == IF hit.type = "null" THEN sel ELSE hit

handlePointerDown(s, p, button, pt) ==
  /\ p \notin DOMAIN pointerStates[s]
  /\ pointerStates' =
       IF button # 0 /\ button # 1 THEN pointerStates
       ELSE [pointerStates EXCEPT ![s] =
               PutPointer(@, p, [distanceTravelled |-> 0, lastX |-> pt[1],
                                 lastY |-> pt[2], downTime |-> now])]
  /\ last' = [Ev("down") EXCEPT !.s = s, !.p = p,
                                !.tracked = (button = 0 \/ button = 1)]
  /\ sawTap' = [sawTap EXCEPT ![s] = @ \ {p}]
  /\ heldAtTap' = [heldAtTap EXCEPT ![s] = {}]
  /\ UNCHANGED <<anotherPointerTapped, layerTransform, ibom_settings, transform,
                 current_selection, draw_crosshair, target_boxes, udp_selection,
                 now, lastAdjust,
                 lastSample>>

handlePointerLeave(s, p) ==
  /\ pointerStates' = [pointerStates EXCEPT ![s] = DeletePointer(@, p)]
  /\ last' = [Ev("leave") EXCEPT
                !.s = s, !.p = p, !.tracked = (p \in DOMAIN pointerStates[s]),
                !.n = NumPointers(s),
                !.bg = IF ibom_settings.redrawOnDrag THEN @ ELSE RedrawOf(s, @),
                !.hl = IF ibom_settings.redrawOnDrag THEN @ ELSE RedrawOf(s, @)]
  /\ sawTap' = [sawTap EXCEPT ![s] = @ \ {p}]
  /\ heldAtTap' = [heldAtTap EXCEPT ![s] = {}]
  /\ UNCHANGED <<anotherPointerTapped, layerTransform, ibom_settings, transform,
                 current_selection, draw_crosshair, target_boxes, udp_selection,
                 now, lastAdjust,
                 lastSample>>

\* a qualifying tap, as the gesture rules state it (used by the history only)
Qualifying(tracked, button, travel, elapsed) ==
  tracked /\ button = 0 /\ travel < 10 /\ elapsed <= 500

handlePointerUp(s, p, button, pt) ==
  /\ LET ps == pointerStates[s]
         tracked == p \in DOMAIN ps
         threw == button # 2 /\ ~tracked
         distanceTravelled ==
           IF tracked THEN ps[p].distanceTravelled + StepLength(ps[p], pt) ELSE 0
         elapsed == IF tracked THEN now - ps[p].downTime ELSE 0
         n == NumPointers(s)
         outcome ==
           IF button = 2 THEN "reset"
           ELSE IF threw THEN "throw"
           ELSE IF IsTap(button, distanceTravelled, elapsed)
                THEN TapOutcome(n, anotherPointerTapped[s])
           ELSE "drag"
         redraw == outcome = "reset" \/ (outcome = "drag" /\ ~ibom_settings.redrawOnDrag)
         qualifying == Qualifying(tracked, button, distanceTravelled, elapsed)
     IN \E hit \in (IF outcome = "pick" THEN PickResults ELSE {current_selection}) :
          /\ pointerStates' =
               IF button = 2 \/ threw THEN pointerStates
               ELSE [pointerStates EXCEPT ![s] = DeletePointer(@, p)]
          /\ anotherPointerTapped' =
               IF threw THEN anotherPointerTapped
               ELSE [anotherPointerTapped EXCEPT ![s] = (outcome = "pending")]
          /\ layerTransform' =
               IF outcome = "reset"
               THEN [layerTransform EXCEPT ![s] = resetTransform(s, @)]
               ELSE layerTransform
          /\ current_selection' =
               IF outcome = "pick" THEN handleMouseClick(current_selection, hit)
               ELSE current_selection
          /\ last' = [Ev("up") EXCEPT
                        !.s = s, !.p = p, !.button = button, !.pt = pt,
                        !.tracked = tracked,
                        !.travel = distanceTravelled, !.elapsed = elapsed, !.n = n,
                        !.prior = (p \in sawTap[s]),
                        !.partner = (heldAtTap[s] = {p}),
                        !.picks = IF outcome = "pick" THEN <<pt>> ELSE <<>>,
                        !.resets = IF outcome = "reset" THEN 1 ELSE 0,
                        !.bg = IF redraw THEN RedrawOf(s, @) ELSE @,
                        !.hl = IF redraw THEN RedrawOf(s, @)
                               ELSE IF outcome = "pick" /\ hit.type # "null"
                               THEN [q \in Surfaces |-> 1]
                               ELSE @,
                        !.threw = threw]
          /\ sawTap' =
               IF qualifying
               THEN [sawTap EXCEPT ![s] = (@ \cup DOMAIN ps) \ {p}]
               ELSE [sawTap EXCEPT ![s] = @ \ {p}]
          /\ heldAtTap' =
               IF qualifying
               THEN [heldAtTap EXCEPT ![s] = (DOMAIN ps) \ {p}]
               ELSE [heldAtTap EXCEPT ![s] = {}]
  /\ UNCHANGED <<ibom_settings, transform, draw_crosshair, target_boxes,
                 udp_selection, now, lastAdjust,
                 lastSample>>

handlePointerMove(s, p, pt) ==
  /\ LET ps == pointerStates[s]
         tracked == p \in DOMAIN ps
         n == NumPointers(s)
         thisPtr == ps[p]
         dx == pt[1] - thisPtr.lastX
         dy == pt[2] - thisPtr.lastY
         otherPtr == ps[CHOOSE q \in DOMAIN ps : q # p]
     IN IF ~tracked
        THEN /\ last' = [Ev("move") EXCEPT !.s = s, !.p = p, !.pt = pt, !.n = n]
             /\ UNCHANGED <<pointerStates, layerTransform>>
        ELSE /\ pointerStates' =
                  [pointerStates EXCEPT ![s][p] =
                     [@ EXCEPT !.distanceTravelled = @ + Abs(dx) + Abs(dy),
                               !.lastX = pt[1], !.lastY = pt[2]]]
             /\ layerTransform' =
                  [layerTransform EXCEPT ![s] =
                     IF n = 1 THEN PanBy(@, dx, dy)
                     ELSE IF n = 2 THEN PinchBy(@, thisPtr, otherPtr, pt)
                     ELSE @]
             /\ last' = [Ev("move") EXCEPT
                           !.s = s, !.p = p, !.pt = pt, !.tracked = TRUE, !.n = n,
                           !.travel = thisPtr.distanceTravelled + Abs(dx) + Abs(dy),
                           !.bg = IF ibom_settings.redrawOnDrag THEN RedrawOf(s, @) ELSE @,
                           !.hl = IF ibom_settings.redrawOnDrag THEN RedrawOf(s, @) ELSE @]
  /\ UNCHANGED <<anotherPointerTapped, ibom_settings, transform, current_selection,
                 draw_crosshair, target_boxes, udp_selection, now, sawTap, heldAtTap,
                 lastAdjust,
                 lastSample>>

handleMouseWheel(s, deltaY, deltaMode, pt) ==
  /\ layerTransform' =
       [layerTransform EXCEPT ![s] =
          ZoomAbout(@, WheelFactor(deltaY, deltaMode), pt[1], pt[2])]
  /\ last' = [Ev("wheel") EXCEPT !.s = s, !.pt = pt,
                                 !.bg = RedrawOf(s, @), !.hl = RedrawOf(s, @)]
  /\ UNCHANGED <<pointerStates, anotherPointerTapped, ibom_settings, transform,
                 current_selection, draw_crosshair, target_boxes, udp_selection, now,
                 sawTap, heldAtTap, lastAdjust,
                 lastSample>>

setRedrawOnDrag(value) ==
  /\ ibom_settings' = [ibom_settings EXCEPT !.redrawOnDrag = value]
  /\ last' = Ev("setRedrawOnDrag")
  /\ UNCHANGED <<pointerStates, anotherPointerTapped, layerTransform, transform,
                 current_selection, draw_crosshair, target_boxes, udp_selection, now,
                 sawTap, heldAtTap, lastAdjust,
                 lastSample>>

\* time passes between two events
Tick(d) ==
  /\ now + d <= MaxNow
  /\ now' = now + d
  /\ UNCHANGED <<pointerStates, anotherPointerTapped, layerTransform, ibom_settings,
                 transform, current_selection, draw_crosshair, target_boxes,
                 udp_selection, last, sawTap, heldAtTap, lastAdjust,
                 lastSample>>

(***************************************************************************)
(* RenderPipeline entry points (render.js).                                *)
(***************************************************************************)
\* drawHighlights(): the highlight layers it redraws, added to count
drawHighlights(count) == [count EXCEPT !["F"] = @ + 1, !["B"] = @ + 1]

\* resizeAll(): every surface is rescaled and fully redrawn
resizeAllTransforms(lt, boardRotation) ==
  [s \in Surfaces |-> resizeCanvas(s, lt[s], boardRotation)]

AllRedrawn == [s \in Surfaces |-> 1]

(***************************************************************************)
(* SelectionModel and SyncChannel (projector page).                        *)
(***************************************************************************)
NoSelection == [type |-> "null", val |-> Null]
NoTargets == [s \in Surfaces |-> <<>>]

\* the key a selection message is looked up and stored under
SelectedValue(msg) == IF msg.type = "comp" THEN parseInt(msg.val) ELSE msg.val

\* the lookup of projectorSelectComponent / projectorSelectPins / projectorSelectNet
LookupOk(msg) ==
  LET selected == SelectedValue(msg)
  IN CASE msg.type = "comp" -> selected.t = "num" /\ selected.n \in compdict
       [] msg.type = "pin" -> selected.t = "num" /\ selected.n \in pindict
       [] msg.type = "net" -> selected.t = "str" /\ selected.s \in netdict
       [] OTHER -> FALSE

\* does the handler reach projectorDeselectAll() for this message
CallsDeselectAll(msg) == msg.type = "deselect" \/ LookupOk(msg)

\* variant: deselect is not handled
SelectionAfter_NoDeselect(sel, msg) ==
  IF LookupOk(msg) THEN [type |-> msg.type, val |-> SelectedValue(msg)] ELSE sel

\* variant: the Selection is cleared before the lookup
SelectionAfter_ClearFirst(sel, msg) ==
  IF LookupOk(msg) THEN [type |-> msg.type, val |-> SelectedValue(msg)]
  ELSE NoSelection

\* current_selection after the selection handler
SelectionAfter(sel, msg) ==
  IF msg.type = "deselect" THEN NoSelection
  ELSE IF LookupOk(msg) THEN [type |-> msg.type, val |-> SelectedValue(msg)]
  ELSE sel

\* highlight redraws of the selection handler: one drawHighlights() in
\* projectorDeselectAll and one more after the Selection is set
SelectionRedraws(msg) ==
  IF msg.type = "deselect" THEN drawHighlights(NoCount)
  ELSE IF LookupOk(msg) THEN drawHighlights(drawHighlights(NoCount))
  ELSE NoCount

onSelection(msg) ==
  /\ current_selection' = SelectionAfter(current_selection, msg)
  /\ draw_crosshair' = IF CallsDeselectAll(msg) THEN FALSE ELSE draw_crosshair
  /\ target_boxes' = IF CallsDeselectAll(msg) THEN NoTargets ELSE target_boxes
  /\ last' = [Ev("selection") EXCEPT
                !.sel = msg, !.hl = SelectionRedraws(msg),
                !.logged = ~CallsDeselectAll(msg)]
  /\ UNCHANGED <<pointerStates, anotherPointerTapped, layerTransform, ibom_settings,
                 transform, udp_selection, now, sawTap, heldAtTap, lastAdjust,
                 lastSample>>

onProjectorMode(mode) ==
  /\ ibom_settings' = [ibom_settings EXCEPT !.renderEdgeCuts = (mode = "calibrate"),
                                            !.renderPads = (mode = "calibrate")]
  /\ layerTransform' = resizeAllTransforms(layerTransform, ibom_settings.boardRotation)
  /\ last' = [Ev("projector-mode") EXCEPT !.bg = AllRedrawn, !.hl = AllRedrawn]
  /\ UNCHANGED <<pointerStates, anotherPointerTapped, transform, current_selection,
                 draw_crosshair, target_boxes, udp_selection, now, sawTap, heldAtTap,
                 lastAdjust,
                 lastSample>>

\* variant: the back surface is not mirrored
AdjustLayer_NoMirror(s, t, tr) ==
  [t EXCEPT !.panx = tr.tx, !.pany = tr.ty, !.zoom = tr.z]

\* the per-layer assignments of the projector-adjust handler
AdjustLayer(s, t, tr) ==
  [t EXCEPT !.panx = IF s = "F" THEN tr.tx ELSE RNeg(tr.tx),
            !.pany = tr.ty,
            !.zoom = tr.z]

onProjectorAdjust(adjust) ==
  /\ LET tr == [transform EXCEPT ![adjust.type] = adjust.val]
         adjusted == [s \in Surfaces |->
                        IF s \in Layouts THEN AdjustLayer(s, layerTransform[s], tr)
                        ELSE layerTransform[s]]
     IN /\ transform' = tr
        /\ ibom_settings' = [ibom_settings EXCEPT !.boardRotation = tr.r]
        /\ layerTransform' = resizeAllTransforms(adjusted, tr.r)
  /\ last' = [Ev("projector-adjust") EXCEPT
                !.adj = adjust, !.bg = AllRedrawn, !.hl = AllRedrawn]
  /\ lastAdjust' = [lastAdjust EXCEPT ![adjust.type] = adjust.val]
  /\ UNCHANGED <<pointerStates, anotherPointerTapped, current_selection,
                 draw_crosshair, target_boxes, udp_selection, now, sawTap, heldAtTap,
                 lastSample>>

\* variant: the vertical axis is not inverted
optitrackPixelToLayoutCoords_NoFlip(point, t) ==
  <<RSub(RDiv(point[1], t.zoom), t.panx),
    RSub(RDiv(point[2], t.zoom), t.pany)>>

\* optitrackPixelToLayoutCoords(point)
optitrackPixelToLayoutCoords(point, t) ==
  <<RSub(RDiv(point[1], t.zoom), t.panx),
    RSub(RDiv(RNeg(point[2]), t.zoom), t.pany)>>

\* variant: ty is emitted before tx
optitrackBoardposUpdate_TyFirst(boardpos) ==
  <<[type |-> "ty", val |-> RAdd(boardpos[2], R(0))],
    [type |-> "tx", val |-> RAdd(boardpos[1], R(0))]>>

\* the messages optitrackBoardposUpdate(boardpos) emits
optitrackBoardposUpdate(boardpos) ==
  <<[type |-> "tx", val |-> RAdd(boardpos[1], R(0))],
    [type |-> "ty", val |-> RAdd(boardpos[2], R(0))]>>

onUdp(data) ==
  /\ udp_selection' = optitrackPixelToLayoutCoords(data.tippos_pixel, layerTransform["F"])
  /\ last' = [Ev("udp") EXCEPT
                !.emitted = optitrackBoardposUpdate(data.boardpos_pixel),
                !.hl = drawHighlights(@)]
  /\ lastSample' = data
  /\ UNCHANGED <<pointerStates, anotherPointerTapped, layerTransform, ibom_settings,
                 transform, current_selection, draw_crosshair, target_boxes, now,
                 sawTap, heldAtTap, lastAdjust>>

setBoardRotation(value) ==
  /\ ibom_settings' = [ibom_settings EXCEPT !.boardRotation = R(value * 5)]
  /\ layerTransform' = resizeAllTransforms(layerTransform, R(value * 5))
  /\ last' = [Ev("setBoardRotation") EXCEPT !.bg = AllRedrawn, !.hl = AllRedrawn]
  /\ UNCHANGED <<pointerStates, anotherPointerTapped, transform, current_selection,
                 draw_crosshair, target_boxes, udp_selection, now, sawTap, heldAtTap,
                 lastAdjust,
                 lastSample>>

\* window.onresize
resizeAll ==
  /\ layerTransform' = resizeAllTransforms(layerTransform, ibom_settings.boardRotation)
  /\ last' = [Ev("resize") EXCEPT !.bg = AllRedrawn, !.hl = AllRedrawn]
  /\ UNCHANGED <<pointerStates, anotherPointerTapped, ibom_settings, transform,
                 current_selection, draw_crosshair, target_boxes, udp_selection, now,
                 sawTap, heldAtTap, lastAdjust,
                 lastSample>>

(***************************************************************************)
(* The state once window.onload has run initData .. initSocket and the     *)
(* first resizeAll.                                                        *)
(***************************************************************************)
Init ==
  /\ pointerStates = [s \in Surfaces |-> <<>>]
  /\ anotherPointerTapped = [s \in Surfaces |-> FALSE]
  /\ layerTransform = resizeAllTransforms(initRender, R(0))
  /\ ibom_settings = [redrawOnDrag |-> TRUE, boardRotation |-> R(0),
                      renderEdgeCuts |-> TRUE, renderPads |-> FALSE]
  /\ transform = [tx |-> R(0), ty |-> R(0), r |-> R(0), z |-> R(1)]
  /\ current_selection = NoSelection
  /\ draw_crosshair = FALSE
  /\ target_boxes = NoTargets
  /\ udp_selection = <<>>
  /\ now = 0
  /\ last = [Ev("load") EXCEPT !.bg = AllRedrawn, !.hl = AllRedrawn]
  /\ sawTap = [s \in Surfaces |-> {}]
  /\ heldAtTap = [s \in Surfaces |-> {}]
  /\ lastAdjust = [tx |-> R(0), ty |-> R(0), r |-> R(0), z |-> R(1)]
  /\ lastSample = NoSample
  /\ phase = "ready"
  /\ inflight = <<>>
  /\ calc = NoCalc
  /\ history = NoHistory
  /\ nev = 0

(***************************************************************************)
(* Specifications.                                                         *)
(***************************************************************************)
\* a pointer is pressed on a surface while the other surfaces have no pointer
\* recorded and no two-finger tap pending
OneSurface(s) ==
  \A q \in Surfaces \ {s} : DOMAIN pointerStates[q] = {} /\ ~anotherPointerTapped[q]

\* Press-and-release input (no motion events between press and release), on
\* any surface, for any number of events.
NextTap ==
  /\ UNCHANGED envVars
  /\ \/ \E s \in Surfaces, p \in Pointers, b \in Buttons :
          OneSurface(s) /\ handlePointerDown(s, p, b, <<0, 0>>)
     \/ \E s \in Surfaces, p \in Pointers, b \in Buttons, pt \in TapPoints :
          /\ p \in DOMAIN pointerStates[s] \/ pt = <<0, 0>>
          /\ handlePointerUp(s, p, b, pt)
     \/ \E s \in Surfaces, p \in Pointers : handlePointerLeave(s, p)
     \/ \E d \in TickSteps : Tick(d)

SpecTap == Init /\ [][NextTap]_vars

\* no pointer is recorded on any surface
NoPointerDown == \A q \in Surfaces : DOMAIN pointerStates[q] = {}

\* Pointer and wheel gestures with motion, MaxEvents events long.  Pointer ids
\* are interchangeable, so the first pointer pressed is pointer 1; the wheel is
\* turned and the setting changed between gestures.
NextGesture ==
  /\ nev < MaxEvents
  /\ nev' = nev + 1
  /\ UNCHANGED <<phase, inflight, calc, history>>
  /\ \/ \E s \in Surfaces, p \in Pointers, pt \in Points :
          /\ OneSurface(s)
          /\ p = 1 \/ DOMAIN pointerStates[s] # {}
          /\ handlePointerDown(s, p, 0, pt)
     \/ \E s \in Surfaces, p \in Pointers, pt \in Points :
          p \in DOMAIN pointerStates[s] /\ handlePointerMove(s, p, pt)
     \/ \E s \in Surfaces, p \in Pointers, pt \in Points :
          p \in DOMAIN pointerStates[s] /\ handlePointerUp(s, p, 0, pt)
     \/ \E s \in Surfaces : handlePointerUp(s, 1, 2, <<0, 0>>)
     \/ \E s \in Surfaces, w \in WheelInputs :
          NoPointerDown /\ handleMouseWheel(s, w[1], w[2], <<3, 4>>)
     \/ NoPointerDown /\ setRedrawOnDrag(~ibom_settings.redrawOnDrag)

SpecGesture == Init /\ [][NextGesture]_vars

\* Messages of the sync channel, in any number and order.
NextSync ==
  /\ UNCHANGED envVars
  /\ \/ \E msg \in SelectionMsgs : onSelection(msg)
     \/ \E adjust \in AdjustMsgs : onProjectorAdjust(adjust)
     \/ \E data \in UdpMsgs : onUdp(data)
     \/ \E mode \in {"calibrate", "normal"} : onProjectorMode(mode)

SpecSync == Init /\ [][NextSync]_vars

\* Remote adjustments and tracking samples interleaved with local gestures on
\* the front surface (wheel, drag, right-click reset) and the rotation setting,
\* MaxEvents events long.
NextMixed ==
  /\ nev < MaxEvents
  /\ nev' = nev + 1
  /\ UNCHANGED <<phase, inflight, calc, history>>
  /\ \/ \E adjust \in AdjustMsgs : onProjectorAdjust(adjust)
     \/ \E data \in UdpMsgs : onUdp(data)
     \/ \E w \in WheelInputs : handleMouseWheel("F", w[1], w[2], <<3, 4>>)
     \/ handlePointerDown("F", 1, 0, <<0, 0>>)
     \/ \E pt \in Points :
          1 \in DOMAIN pointerStates["F"] /\ handlePointerMove("F", 1, pt)
     \/ \E pt \in Points :
          1 \in DOMAIN pointerStates["F"] /\ handlePointerUp("F", 1, 0, pt)
     \/ handlePointerUp("F", 1, 2, <<0, 0>>)
     \/ \E v \in RotationInputs : setBoardRotation(v)

SpecMixed == Init /\ [][NextMixed]_vars

\* A tracking sample is handled and the server takes the adjustments it emits.
Sample(data) ==
  /\ nev < MaxEvents
  /\ nev' = nev + 1
  /\ onUdp(data)
  /\ inflight' = inflight \o last'.emitted
  /\ UNCHANGED <<phase, calc, history>>

\* The server relays the oldest emitted adjustment back to this peer.
Relay ==
  /\ inflight # <<>>
  /\ onProjectorAdjust(Head(inflight))
  /\ inflight' = Tail(inflight)
  /\ UNCHANGED <<phase, nev, calc, history>>

\* The tracking loop: at most MaxEvents samples, every emitted adjustment
\* relayed back in order, and zoom adjustments from the main page in between.
NextLoop ==
  \/ \E data \in UdpMsgs : Sample(data)
  \/ Relay
  \/ \E adjust \in {m \in AdjustMsgs : m.type = "z"} :
       onProjectorAdjust(adjust) /\ UNCHANGED envVars

SpecLoop == Init /\ [][NextLoop]_vars /\ WF_vars(Relay)

(***************************************************************************)
(* Page load (window.onload, window.onresize).                             *)
(***************************************************************************)
\* data_urls
Documents == {"schdata", "pcbdata", "datadicts"}

\* a variant that settles with whatever documents did arrive
PromiseAll_AnyFulfilled(failed) ==
  IF failed = Documents THEN "rejected" ELSE "fulfilled"

\* Promise.all over the fetches and then over the res.json() calls, where
\* failed is the set of documents whose fetch or whose res.json() rejects:
\* the chain rejects as soon as one of them does
PromiseAll(failed) ==
  IF failed = {} THEN "fulfilled" ELSE "rejected"

\* var allcanvas; before initRender has assigned it
allcanvasUndefined ==
  [s \in Surfaces |->
     [x |-> NaN, y |-> NaN, s |-> NaN, panx |-> NaN, pany |-> NaN, zoom |-> NaN]]

\* The page after its scripts have run and window.onload has started the three
\* fetches: the globals hold their declared values, no init function has run.
InitLoad ==
  /\ pointerStates = [s \in Surfaces |-> <<>>]
  /\ anotherPointerTapped = [s \in Surfaces |-> FALSE]
  /\ layerTransform = allcanvasUndefined
  /\ ibom_settings = [redrawOnDrag |-> TRUE, boardRotation |-> R(0),
                      renderEdgeCuts |-> FALSE, renderPads |-> TRUE]
  /\ transform = [tx |-> R(0), ty |-> R(0), r |-> R(0), z |-> R(1)]
  /\ current_selection = NoSelection
  /\ draw_crosshair = FALSE
  /\ target_boxes = NoTargets
  /\ udp_selection = <<>>
  /\ now = 0
  /\ last = Ev("script")
  /\ sawTap = [s \in Surfaces |-> {}]
  /\ heldAtTap = [s \in Surfaces |-> {}]
  /\ lastAdjust = [tx |-> R(0), ty |-> R(0), r |-> R(0), z |-> R(1)]
  /\ lastSample = NoSample
  /\ phase = "loading"
  /\ inflight = <<>>
  /\ calc = NoCalc
  /\ history = NoHistory
  /\ nev = 0

\* The promise chain of window.onload settles.  Fulfilled: initData, initUtils,
\* initLayout, initSettings, initSocket and resizeAll run in this order.
\* Rejected: .catch((e) => console.log(e)) and nothing else.
onloadSettled(failed) ==
  /\ phase = "loading"
  /\ IF PromiseAll(failed) = "fulfilled"
       THEN /\ phase' = "ready"
            /\ layerTransform' = resizeAllTransforms(initRender, ibom_settings.boardRotation)
            /\ ibom_settings' = [ibom_settings EXCEPT !.renderEdgeCuts = TRUE,
                                                      !.renderPads = FALSE]
            /\ last' = [Ev("load") EXCEPT !.bg = AllRedrawn, !.hl = AllRedrawn,
                                          !.failed = failed]
       ELSE /\ phase' = "failed"
            /\ last' = [Ev("load") EXCEPT !.logged = TRUE, !.failed = failed]
            /\ UNCHANGED <<layerTransform, ibom_settings>>
  /\ UNCHANGED <<pointerStates, anotherPointerTapped, transform,
                 current_selection, draw_crosshair, target_boxes, udp_selection, now,
                 sawTap, heldAtTap, lastAdjust, lastSample>>

\* window.onresize = resizeAll, assigned when the script is evaluated: while
\* allcanvas is undefined, resizeCanvas(allcanvas.front) throws a TypeError
\* before anything is resized or drawn.
onresize ==
  IF layerTransform = allcanvasUndefined
    THEN /\ last' = [Ev("resize") EXCEPT !.threw = TRUE]
         /\ UNCHANGED <<pointerStates, anotherPointerTapped, layerTransform,
                        ibom_settings, transform, current_selection, draw_crosshair,
                        target_boxes, udp_selection, now, sawTap, heldAtTap,
                        lastAdjust, lastSample>>
    ELSE resizeAll

\* The load settles once, with any set of failing documents; the window is
\* resized at any time; the socket handlers exist once initSocket has run.
\* MaxEvents events long.
NextLoad ==
  \/ \E failed \in SUBSET Documents : onloadSettled(failed) /\ UNCHANGED <<inflight, nev, calc, history>>
  \/ /\ nev < MaxEvents
     /\ nev' = nev + 1
     /\ UNCHANGED <<phase, inflight, calc, history>>
     /\ \/ onresize
        \/ /\ phase = "ready"
           /\ \/ \E msg \in SelectionMsgs : onSelection(msg)
              \/ \E adjust \in AdjustMsgs : onProjectorAdjust(adjust)
              \/ \E data \in UdpMsgs : onUdp(data)
              \/ \E mode \in {"calibrate", "normal"} : onProjectorMode(mode)

SpecLoad == InitLoad /\ [][NextLoad]_vars

(***************************************************************************)
(* Multi-touch input.                                                      *)
(***************************************************************************)
\* pointer ids of up to three fingers
TouchPointers == {1, 2, 3}
\* offsetX/offsetY of the touch events: the corners of a 5-5-6 triangle, so
\* that every distance is an integer and two corners are equally far from the
\* third
TouchPoints == {<<0, 0>>, <<3, 4>>, <<6, 0>>}
\* the surfaces touched: a layout surface and the schematic
TouchSurfaces == {"F", "S"}

\* the history after one more event: the event that was the last one, and the
\* transforms and pointer maps before the new event and before that one
Remember ==
  [ev |-> last,
   before |-> <<[lt |-> layerTransform, ps |-> pointerStates]>>
                \o (IF history.before = <<>> THEN <<>> ELSE <<history.before[1]>>)]

\* Touch gestures of up to three fingers on one surface, MaxTouchEvents events
\* long: fingers are put down (the lowest free pointer id first), moved and
\* taken away; move events also arrive for pointers that are not recorded.
NextTouch ==
  /\ nev < MaxTouchEvents
  /\ nev' = nev + 1
  /\ history' = Remember
  /\ UNCHANGED <<phase, inflight, calc>>
  /\ \/ \E s \in TouchSurfaces, p \in TouchPointers, pt \in TouchPoints :
          /\ OneSurface(s)
          /\ p \notin DOMAIN pointerStates[s]
          /\ \A q \in TouchPointers : q < p => q \in DOMAIN pointerStates[s]
          /\ handlePointerDown(s, p, 0, pt)
     \/ \E s \in TouchSurfaces, p \in TouchPointers, pt \in TouchPoints :
          OneSurface(s) /\ handlePointerMove(s, p, pt)
     \/ \E s \in TouchSurfaces, p \in TouchPointers :
          p \in DOMAIN pointerStates[s] /\ handlePointerLeave(s, p)

SpecTouch == Init /\ [][NextTouch]_vars

(***************************************************************************)
(* recalcLayerScale on its own, over boards and viewports.                 *)
(***************************************************************************)
\* pcbdata.edges_bbox of the boards tried: the board of the other
\* specifications, one far larger than any viewport, one that extends to
\* negative coordinates
FitBoards ==
  {edges_bbox,
   [minx |-> R(0), miny |-> R(0), maxx |-> R(2000), maxy |-> R(1000)],
   [minx |-> R(-10), miny |-> R(-5), maxx |-> R(30), maxy |-> R(5)]}

\* width and height handed to recalcLayerScale: the layout canvas, a hidden
\* canvas, a narrow one, a large one
FitViewports == {<<R(100), R(60)>>, <<R(0), R(0)>>, <<R(10), R(500)>>, <<R(1920), R(1080)>>}

\* ibom_settings.boardRotation
FitRotations == {R(0), R(90), R(7)}

\* layerdict.transform before the call
FitTransforms ==
  {[x |-> R(0), y |-> R(0), s |-> R(1), panx |-> R(0), pany |-> R(0), zoom |-> R(1)],
   [x |-> R(1), y |-> R(2), s |-> R(3), panx |-> R(5), pany |-> R(-3), zoom |-> Frac(1, 2)]}

\* the arguments of one call
FitArgs ==
  [bbox : FitBoards, layer : Surfaces, view : FitViewports,
   boardRotation : FitRotations, transform : FitTransforms]

\* the box recalcLayerScale fits: the board's, rotated on the layout surfaces
\* (resizeCanvas passes rotate = layerdict.layer !== "S")
FittedBox(arg) ==
  IF arg.layer # "S" THEN applyRotation(arg.bbox, arg.boardRotation) ELSE arg.bbox

\* layerdict.transform after recalcLayerScale(layerdict, width, height, rotate)
\* for the board with the given edges_bbox
recalcLayerScaleOf(arg) ==
  WithFit(arg.transform, FitBox(arg.layer, FittedBox(arg), arg.view[1], arg.view[2]))

\* The loaded page, about to make one of the given calls.
InitCalc(calls) ==
  /\ pointerStates = [s \in Surfaces |-> <<>>]
  /\ anotherPointerTapped = [s \in Surfaces |-> FALSE]
  /\ layerTransform = resizeAllTransforms(initRender, R(0))
  /\ ibom_settings = [redrawOnDrag |-> TRUE, boardRotation |-> R(0),
                      renderEdgeCuts |-> TRUE, renderPads |-> FALSE]
  /\ transform = [tx |-> R(0), ty |-> R(0), r |-> R(0), z |-> R(1)]
  /\ current_selection = NoSelection
  /\ draw_crosshair = FALSE
  /\ target_boxes = NoTargets
  /\ udp_selection = <<>>
  /\ now = 0
  /\ last = [Ev("load") EXCEPT !.bg = AllRedrawn, !.hl = AllRedrawn]
  /\ sawTap = [s \in Surfaces |-> {}]
  /\ heldAtTap = [s \in Surfaces |-> {}]
  /\ lastAdjust = [tx |-> R(0), ty |-> R(0), r |-> R(0), z |-> R(1)]
  /\ lastSample = NoSample
  /\ phase = "ready"
  /\ inflight = <<>>
  /\ calc \in calls
  /\ history = NoHistory
  /\ nev = 0

InitFit == InitCalc([fn : {"recalcLayerScale"}, arg : FitArgs, res : {<<>>}])

\* the call is made
NextFit ==
  /\ calc.fn = "recalcLayerScale"
  /\ calc.res = <<>>
  /\ calc' = [calc EXCEPT !.res = <<recalcLayerScaleOf(calc.arg)>>]
  /\ UNCHANGED <<progVars, last, sawTap, heldAtTap, lastAdjust, lastSample,
                 phase, inflight, history, nev>>

SpecFit == InitFit /\ [][NextFit]_vars

(***************************************************************************)
(* drawBackground on its own, over the render settings.                    *)
(***************************************************************************)
\* largest pcbdata.footprints.length tried
DrawFootprints == 0..2

\* the settings drawBackground and the functions it calls read, and the
\* number of footprints of the board
DrawArgs ==
  [renderTracks : BOOLEAN, renderZones : BOOLEAN, renderPads : BOOLEAN,
   renderSilkscreen : BOOLEAN, renderFabrication : BOOLEAN,
   footprints : DrawFootprints]

\* one draw step: what is drawn and, inside drawFootprint, for which footprint
Step(what, fp) == [what |-> what, fp |-> fp]

\* drawNets(canvas, layer, false)
drawNets(arg) ==
  (IF arg.renderTracks THEN <<Step("tracks", 0)>> ELSE <<>>)
    \o (IF arg.renderZones THEN <<Step("zones", 0)>> ELSE <<>>)

\* drawFootprint(..., highlight = false, ...) for footprint number fp
drawFootprint(arg, fp) ==
  <<Step("drawings", fp)>>
    \o (IF arg.renderPads THEN <<Step("pads", fp), Step("pad holes", fp)>> ELSE <<>>)

\* drawFootprints(canvas, layer, scalefactor, false): footprints 1..n in turn
drawFootprints[n \in Nat] ==
  [arg \in DrawArgs |->
     IF n = 0 THEN <<>> ELSE drawFootprints[n - 1][arg] \o drawFootprint(arg, n)]

\* the draw steps of drawBackground(canvasdict), in the order they are made
drawBackground(arg) ==
  drawNets(arg)
    \o drawFootprints[arg.footprints][arg]
    \o <<Step("edge-cuts", 0)>>
    \o (IF arg.renderSilkscreen THEN <<Step("silkscreen", 0)>> ELSE <<>>)
    \o (IF arg.renderFabrication THEN <<Step("fabrication", 0)>> ELSE <<>>)

InitDraw == InitCalc([fn : {"drawBackground"}, arg : DrawArgs, res : {<<>>}])

\* the background is drawn
NextDraw ==
  /\ calc.fn = "drawBackground"
  /\ calc.res = <<>>
  /\ calc' = [calc EXCEPT !.res = <<drawBackground(calc.arg)>>]
  /\ UNCHANGED <<progVars, last, sawTap, heldAtTap, lastAdjust, lastSample,
                 phase, inflight, history, nev>>

SpecDraw == InitDraw /\ [][NextDraw]_vars

(***************************************************************************)
(* Properties.                                                             *)
(***************************************************************************)
\* the last event was the release, with button 0 or 1, of a recorded pointer
ReleasedTracked == last.kind = "up" /\ last.tracked /\ last.button \in {0, 1}

\* ... and the release was a qualifying tap
ReleasedTap ==
  ReleasedTracked /\ last.button = 0 /\ last.travel < 10 /\ last.elapsed <= 500

\* C1: a qualifying tap released as the only recorded pointer of its surface,
\* with no other pointer having completed a qualifying tap while it was down,
\* dispatches exactly one pick, at the release point, and no reset.
C1_TapPicks ==
  (ReleasedTap /\ last.n = 1 /\ ~last.prior)
    => (last.picks = <<last.pt>> /\ last.resets = 0)

\* C2: when pointer B is released as a qualifying tap while pointer A is held
\* and A is released next as a qualifying tap, A's release resets the surface
\* and picks nothing; the release of B (another pointer still recorded) neither
\* picks nor resets.
C2_TwoFingerTap ==
  ReleasedTap =>
    /\ last.partner => (last.resets = 1 /\ last.picks = <<>>)
    /\ last.n >= 2 => (last.resets = 0 /\ last.picks = <<>>)

C2_Witness == ReleasedTap /\ last.partner /\ last.n = 1 /\ last.resets = 1

\* C3: the release, with button 0 or 1, of a recorded pointer whose travel
\* (the recorded travel plus the distance from the last recorded position to the
\* release position) is 10 or more, or that was down for more than 500 ms, or
\* whose button is not the primary one, dispatches no pick and no reset and
\* leaves the Selection unchanged.
C3_NoTapNoPick ==
  [][(/\ last'.kind = "up" /\ last'.button \in {0, 1}
      /\ last'.p \in DOMAIN pointerStates[last'.s]
      /\ last'.p \notin DOMAIN pointerStates'[last'.s]
      /\ LET ptr == pointerStates[last'.s][last'.p]
         IN \/ ptr.distanceTravelled + Abs(last'.pt[1] - ptr.lastX)
                 + Abs(last'.pt[2] - ptr.lastY) >= 10
            \/ now - ptr.downTime > 500
            \/ last'.button # 0)
     => (/\ last'.picks = <<>>
         /\ last'.resets = 0
         /\ current_selection' = current_selection)]_vars

C3_Witness ==
  /\ ReleasedTracked /\ last.button = 0 /\ last.travel = 10 /\ last.elapsed <= 500
  /\ last.n = 1 /\ last.picks = <<>> /\ current_selection # NoSelection

\* the entity a selection message references, if the index knows it
KnownEntity(msg) ==
  CASE msg.type = "comp" -> parseInt(msg.val).t = "num" /\ parseInt(msg.val).n \in compdict
    [] msg.type = "pin" -> msg.val.t = "num" /\ msg.val.n \in pindict
    [] msg.type = "net" -> msg.val.t = "str" /\ msg.val.s \in netdict
    [] OTHER -> FALSE

EntityId(msg) == IF msg.type = "comp" THEN parseInt(msg.val) ELSE msg.val

C5_OneHighlightRedraw ==
  [][(/\ current_selection = NoSelection
      /\ last'.kind = "selection" /\ last'.sel.type = "net" /\ KnownEntity(last'.sel))
     => (/\ current_selection' = [type |-> "net", val |-> last'.sel.val]
         /\ \A s \in Layouts : last'.hl[s] = 1
         /\ \A s \in Surfaces : last'.bg[s] = 0)]_vars

\* C6: every accepted selection change redraws the highlight layer of the front
\* layout, the back layout and the schematic, and no background layer.
C6_RedrawAllSurfaces ==
  (last.kind = "selection" /\ ~last.logged)
    => (/\ \A s \in Surfaces : last.hl[s] >= 1
        /\ \A s \in Surfaces : last.bg[s] = 0)

C8_ZoomPositive == \A s \in Surfaces : RGt(layerTransform[s].zoom, R(0))

\* C9: a two-pointer move whose old pointer distance is 0 leaves the zoom and
\* the pan of the surface as they were.
C9_DegeneratePinchDiscarded ==
  [][(/\ last'.kind = "move" /\ last'.tracked /\ last'.n = 2 /\ nev' # nev
      /\ LET ps == pointerStates[last'.s]
             other == CHOOSE q \in DOMAIN ps : q # last'.p
         IN ps[last'.p].lastX = ps[other].lastX /\ ps[last'.p].lastY = ps[other].lastY)
     => (/\ layerTransform'[last'.s].zoom = layerTransform[last'.s].zoom
         /\ layerTransform'[last'.s].panx = layerTransform[last'.s].panx
         /\ layerTransform'[last'.s].pany = layerTransform[last'.s].pany)]_vars

\* C10: after every projector-adjust message the front surface has panx = the
\* last tx value and zoom = the last z value (0 and 1 if none), the back surface
\* has panx = minus the last tx value and the same zoom; and a message received
\* a second time in a row changes nothing.
C10_AdjustLastWriteWins ==
  /\ [](last.kind = "projector-adjust" =>
          /\ layerTransform["F"].panx = lastAdjust.tx
          /\ layerTransform["F"].zoom = lastAdjust.z
          /\ layerTransform["B"].panx = RNeg(lastAdjust.tx)
          /\ layerTransform["B"].zoom = lastAdjust.z)
  /\ [][(/\ last.kind = "projector-adjust" /\ last'.kind = "projector-adjust"
         /\ last'.adj = last.adj)
        => progVars' = progVars]_vars

C10_Witness ==
  /\ last.kind = "projector-adjust" /\ last.adj.type = "z"
  /\ lastAdjust.tx = R(5) /\ lastAdjust.z = Frac(1, 2)
  /\ layerTransform["B"].panx = R(-5)

\* C11: after a projector-adjust message of type ty with value v the front
\* surface has pany = v and the back surface has pany = -v; after one of type z
\* both layout surfaces have zoom = v, and after one of type r the board
\* rotation, which both layout surfaces share, is v.
C11_TyMirrored ==
  (last.kind = "projector-adjust") =>
    /\ last.adj.type = "ty" =>
         /\ layerTransform["F"].pany = last.adj.val
         /\ layerTransform["B"].pany = RNeg(last.adj.val)
    /\ last.adj.type = "z" =>
         \A s \in Layouts : layerTransform[s].zoom = last.adj.val
    /\ last.adj.type = "r" => ibom_settings.boardRotation = last.adj.val

\* C12: a projector-adjust message of type c leaves, on each layout surface,
\* the components other than c (among pan x, pan y, rotation, zoom) at the
\* values they had immediately before the message.
C12_AdjustOneComponent ==
  [][last'.kind = "projector-adjust" =>
       \A s \in Layouts :
         /\ last'.adj.type # "tx" => layerTransform'[s].panx = layerTransform[s].panx
         /\ last'.adj.type # "ty" => layerTransform'[s].pany = layerTransform[s].pany
         /\ last'.adj.type # "z" => layerTransform'[s].zoom = layerTransform[s].zoom
         /\ last'.adj.type # "r" =>
              ibom_settings'.boardRotation = ibom_settings.boardRotation]_vars

\* C13: the board rotation is a multiple of 5 degrees in every reachable state.
C13_RotationStep ==
  /\ IsFinite(ibom_settings.boardRotation)
  /\ ibom_settings.boardRotation[2] = 1
  /\ ibom_settings.boardRotation[1] % 5 = 0

\* C14: once a tracking sample has been handled, the stored crosshair target is
\* the last tip sample mapped with the front surface's current transform:
\* <<tip.x / zoom - panx, -tip.y / zoom - pany>>.
C14_TargetNeverStale ==
  lastSample # NoSample =>
    udp_selection =
      <<RSub(RDiv(lastSample.tippos_pixel[1], layerTransform["F"].zoom),
             layerTransform["F"].panx),
        RSub(RDiv(RNeg(lastSample.tippos_pixel[2]), layerTransform["F"].zoom),
             layerTransform["F"].pany)>>

\* C15: handling a tracking sample emits, in this order, an adjustment of tx
\* with the board position's x and one of ty with its y, and maps the tip with
\* the transform as it was (nothing is relayed in between); and when every
\* emitted adjustment is relayed back in order, the front surface's pan
\* eventually equals the board position of the last sample.
C15_ClosedLoop ==
  /\ [][last'.kind = "udp" =>
          /\ last'.emitted = <<[type |-> "tx", val |-> lastSample'.boardpos_pixel[1]],
                               [type |-> "ty", val |-> lastSample'.boardpos_pixel[2]]>>
          /\ inflight' = inflight \o last'.emitted
          /\ layerTransform' = layerTransform]_vars
  /\ (lastSample # NoSample) ~>
       (/\ inflight = <<>>
        /\ layerTransform["F"].panx = lastSample.boardpos_pixel[1]
        /\ layerTransform["F"].pany = lastSample.boardpos_pixel[2])

C15_Witness ==
  /\ nev = 2 /\ inflight = <<>> /\ last.kind = "projector-adjust"
  /\ lastSample.boardpos_pixel = <<R(5), R(-3)>>
  /\ layerTransform["F"].panx = R(5) /\ layerTransform["F"].pany = R(-3)

\* C16: handling a tracking sample leaves the Selection and every surface's
\* transform as they were, sets the crosshair target to the mapped tip
\* <<tip.x / zoom - panx, -tip.y / zoom - pany>> of the front surface, and
\* redraws the highlight layers of the layout surfaces and no background.
C16_SampleFrame ==
  [][last'.kind = "udp" =>
       /\ current_selection' = current_selection
       /\ layerTransform' = layerTransform
       /\ transform' = transform
       /\ ibom_settings' = ibom_settings
       /\ udp_selection' =
            <<RSub(RDiv(lastSample'.tippos_pixel[1], layerTransform["F"].zoom),
                   layerTransform["F"].panx),
              RSub(RDiv(RNeg(lastSample'.tippos_pixel[2]), layerTransform["F"].zoom),
                   layerTransform["F"].pany)>>
       /\ \A s \in Layouts : last'.hl[s] = 1
       /\ \A s \in Surfaces : last'.bg[s] = 0]_vars

C16_Witness ==
  /\ last.kind = "udp" /\ current_selection.type = "net"
  /\ layerTransform["F"].zoom = Frac(1, 2) /\ layerTransform["F"].panx = R(5)
  /\ udp_selection = <<R(3), R(-9)>>

\* C17: after a deselect message the Selection has no kind and no value, no
\* crosshair target of an earlier tracking sample remains stored, and only
\* highlight layers were redrawn.
C17_DeselectClearsTarget ==
  (last.kind = "selection" /\ last.sel.type = "deselect") =>
    /\ current_selection = NoSelection
    /\ udp_selection = <<>>
    /\ \A s \in Surfaces : last.bg[s] = 0
    /\ \E s \in Surfaces : last.hl[s] >= 1

\* C18: a leave event of pointer p on surface s removes exactly p from the
\* surface's pointer map, leaves the other pointers' states, every transform
\* and the Selection as they were, dispatches no pick and no reset, and, when it
\* leaves no pointer recorded on s, leaves no two-finger tap pending there.
C18_LeaveEndsGesture ==
  [][last'.kind = "leave" =>
       /\ DOMAIN pointerStates'[last'.s] = DOMAIN pointerStates[last'.s] \ {last'.p}
       /\ \A q \in DOMAIN pointerStates'[last'.s] :
            pointerStates'[last'.s][q] = pointerStates[last'.s][q]
       /\ \A s \in Surfaces \ {last'.s} : pointerStates'[s] = pointerStates[s]
       /\ layerTransform' = layerTransform
       /\ current_selection' = current_selection
       /\ last'.picks = <<>> /\ last'.resets = 0
       /\ DOMAIN pointerStates'[last'.s] = {} => ~anotherPointerTapped'[last'.s]]_vars

\* C19: no interaction logic (pointer, wheel, socket or window-resize
\* handling) runs before the initial fetch and parse has completed: whenever
\* the last thing that happened is a handler run, the load has completed and
\* the surfaces the handler worked on were initialised.
C19_NoHandlerBeforeLoad ==
  last.kind \notin {"script", "load"}
    => phase = "ready" /\ layerTransform # allcanvasUndefined

Dist(ax, ay, bx, by) == Sqrt((ax - bx) * (ax - bx) + (ay - by) * (ay - by))

\* the recorded pointer of surface s other than p, before the last event
OtherBefore(s, p) ==
  LET ps == history.before[1].ps[s]
  IN ps[CHOOSE q \in DOMAIN ps : q # p]

\* the last event was a two-pointer move of a recorded pointer that kept its
\* distance d > 0 to the other pointer
NoOpPinch ==
  /\ last.kind = "move" /\ last.tracked /\ last.n = 2
  /\ LET ps == history.before[1].ps[last.s]
         other == OtherBefore(last.s, last.p)
         oldDist == Dist(ps[last.p].lastX, ps[last.p].lastY, other.lastX, other.lastY)
         newDist == Dist(last.pt[1], last.pt[2], other.lastX, other.lastY)
     IN oldDist = newDist /\ oldDist > 0

\* C21: a two-pointer move that leaves the distance between the pointers
\* unchanged (newDist = oldDist = d > 0, any anchor) leaves zoom, panx and pany
\* of the surface unchanged.
C21_NoOpPinch ==
  NoOpPinch
    => LET was == history.before[1].lt[last.s]
           is == layerTransform[last.s]
       IN is.zoom = was.zoom /\ is.panx = was.panx /\ is.pany = was.pany

\* the last two events were moves of the only recorded pointer of a surface,
\* the second one back to where the pointer was before the first
PanRoundTrip ==
  /\ last.kind = "move" /\ last.tracked /\ last.n = 1
  /\ history.ev.kind = "move" /\ history.ev.tracked /\ history.ev.n = 1
  /\ history.ev.s = last.s /\ history.ev.p = last.p
  /\ Len(history.before) = 2
  /\ LET start == history.before[2].ps[last.s][last.p]
     IN /\ last.pt = <<start.lastX, start.lastY>>
        /\ history.ev.pt # last.pt

\* C22: with exactly one pointer down, a move by (dx, dy) followed by a move
\* by (-dx, -dy) restores panx and pany to their original values and leaves
\* zoom unchanged, while the pointer's accumulated travel does not decrease.
C22_PanRoundTrip ==
  PanRoundTrip
    => LET was == history.before[2].lt[last.s]
           is == layerTransform[last.s]
       IN /\ is.panx = was.panx /\ is.pany = was.pany /\ is.zoom = was.zoom
          /\ pointerStates[last.s][last.p].distanceTravelled
               >= history.before[2].ps[last.s][last.p].distanceTravelled

\* C23: reset is idempotent on every surface kind: a second reset yields the
\* transform the first one left (pan, zoom and the untouched s, x, y); on the
\* layout surfaces the result is pan = (0, 0) and zoom = 1, on the schematic
\* the default zoom and the pan that puts the centre of the active sheet in
\* the centre of the canvas.
C23_ResetIdempotent ==
  [][last'.kind = "up" /\ last'.resets = 1
       => LET s == last'.s
              was == layerTransform[s]
              t == layerTransform'[s]
          IN /\ resetTransform(s, t) = t
             /\ t.s = was.s /\ t.x = was.x /\ t.y = was.y
             /\ s # "S" => t.panx = R(0) /\ t.pany = R(0) /\ t.zoom = R(1)
             /\ s = "S" =>
                  /\ t.zoom = sch_zoom_default
                  /\ CanvasPoint(t, RDiv(sheetDimensions.x, R(2)),
                                 RDiv(sheetDimensions.y, R(2)))
                       = <<RDiv(CanvasSize(s)[1], R(2)), RDiv(CanvasSize(s)[2], R(2))>>]_vars

\* the schematic was reset after at least one earlier event, and its pan is
\* the centring one
C23_Witness ==
  /\ last.kind = "up" /\ last.resets = 1 /\ last.s = "S"
  /\ nev >= 2
  /\ layerTransform["S"].zoom = sch_zoom_default
  /\ layerTransform["S"].panx # R(0)

\* recalcLayerScale has been applied to the arguments in calc
Fitted == calc.fn = "recalcLayerScale" /\ calc.res # <<>>

\* width and height of the box that was fitted
FittedWidth == RSub(FittedBox(calc.arg).maxx, FittedBox(calc.arg).minx)
FittedHeight == RSub(FittedBox(calc.arg).maxy, FittedBox(calc.arg).miny)

\* 0.98 * min(width / bbox.w, height / bbox.h)
NaiveScale ==
  RMul(Frac(98, 100), RMin(RDiv(calc.arg.view[1], FittedWidth),
                           RDiv(calc.arg.view[2], FittedHeight)))

\* C24: for all boards and viewports, after the recomputation the (rotated)
\* board bounding box scaled by s fits within 98% of each viewport dimension:
\* s * bbox.w <= 0.98 * width and s * bbox.h <= 0.98 * height.
C24_FitsViewport ==
  Fitted
    => /\ ~RGt(RMul(calc.res[1].s, FittedWidth), RMul(Frac(98, 100), calc.arg.view[1]))
       /\ ~RGt(RMul(calc.res[1].s, FittedHeight), RMul(Frac(98, 100), calc.arg.view[2]))

TrackedMove == last.kind = "move" /\ last.tracked

\* C26: in every two-pointer move the pinch scale factor is computed from the
\* positions recorded for the moved pointer and for the other pointer by the
\* previous events, never from where the gesture started; and after every move
\* of a recorded pointer, whatever the number of pointers down, the pointer's
\* recorded last position is the event position (so the next event reads it).
C26_PinchFromLastPositions ==
  TrackedMove
    => LET s == last.s
           p == last.p
           ps == history.before[1].ps[s]
       IN /\ pointerStates[s][p].lastX = last.pt[1]
          /\ pointerStates[s][p].lastY = last.pt[2]
          /\ (history.ev.kind = "move" /\ history.ev.tracked
                /\ history.ev.s = s /\ history.ev.p = p)
               => <<ps[p].lastX, ps[p].lastY>> = history.ev.pt
          /\ last.n = 2
               => LET other == OtherBefore(s, p)
                      oldDist == Dist(ps[p].lastX, ps[p].lastY, other.lastX, other.lastY)
                      newDist == Dist(last.pt[1], last.pt[2], other.lastX, other.lastY)
                  IN layerTransform[s].zoom
                       = RMul(history.before[1].lt[s].zoom, RDiv(R(newDist), R(oldDist)))

\* a pinch step by a pointer that had already moved in the event before, so
\* that its recorded position is not where it came down, and that changed the
\* zoom to another finite value
C26_Witness ==
  /\ TrackedMove /\ last.n = 2
  /\ history.ev.kind = "move" /\ history.ev.tracked
  /\ history.ev.s = last.s /\ history.ev.p = last.p /\ history.ev.n = 2
  /\ history.ev.pt # last.pt
  /\ IsFinite(layerTransform[last.s].zoom)
  /\ layerTransform[last.s].zoom # R(0)
  /\ layerTransform[last.s].zoom # history.before[1].lt[last.s].zoom

\* C30: a pointer-move event changes the transform only when exactly one (pan)
\* or exactly two (pinch) pointers are recorded on the surface: with three or
\* more pointers down, or for a pointer id without recorded state, zoom, panx
\* and pany are unchanged; in the untracked case the pointer map is unchanged
\* too and nothing is redrawn.
C30_MoveFrame ==
  last.kind = "move"
    => LET s == last.s
           was == history.before[1]
           down == Cardinality(DOMAIN was.ps[s])
       IN /\ (down >= 3 \/ last.p \notin DOMAIN was.ps[s])
               => /\ layerTransform[s].zoom = was.lt[s].zoom
                  /\ layerTransform[s].panx = was.lt[s].panx
                  /\ layerTransform[s].pany = was.lt[s].pany
          /\ layerTransform # was.lt
               => last.p \in DOMAIN was.ps[s] /\ down \in {1, 2}
          /\ last.p \notin DOMAIN was.ps[s]
               => /\ pointerStates = was.ps
                  /\ last.bg = NoCount /\ last.hl = NoCount

\* the third of three recorded pointers moved to another position
C30_Witness ==
  /\ TrackedMove
  /\ Cardinality(DOMAIN history.before[1].ps[last.s]) = 3
  /\ history.before[1].ps[last.s][last.p].lastX # last.pt[1]

\* one redraw of surface s and none of the others
OnlyOnce(s) == [q \in Surfaces |-> IF q = s THEN 1 ELSE 0]

\* C27: redraw policy during a drag.  With redraw-on-drag off, move events
\* change the transform without any redraw and the pointer-up that ends a
\* non-tap gesture triggers exactly one full redraw of that surface; with it
\* on, every move of a recorded pointer triggers one redraw of the surface and
\* the non-tap pointer-up none.  The release of a qualifying tap never
\* triggers this redraw: it draws nothing unless it resets or picks.
C27_RedrawPolicy ==
  /\ TrackedMove
       => IF ibom_settings.redrawOnDrag
          THEN last.bg = OnlyOnce(last.s) /\ last.hl = OnlyOnce(last.s)
          ELSE last.bg = NoCount /\ last.hl = NoCount
  /\ (ReleasedTracked /\ ~ReleasedTap)
       => IF ibom_settings.redrawOnDrag
          THEN last.bg = NoCount /\ last.hl = NoCount
          ELSE last.bg = OnlyOnce(last.s) /\ last.hl = OnlyOnce(last.s)
  /\ ReleasedTap
       => /\ last.bg = (IF last.resets = 1 THEN OnlyOnce(last.s) ELSE NoCount)
          /\ (last.resets = 0 /\ last.picks = <<>>) => last.hl = NoCount

\* with redraw-on-drag off, a drag that changed the pan ended with a release
\* that redrew the surface once
C27_Witness ==
  /\ ReleasedTracked /\ ~ReleasedTap
  /\ ~ibom_settings.redrawOnDrag
  /\ last.travel >= 10
  /\ layerTransform[last.s].panx # R(0)
  /\ last.bg = OnlyOnce(last.s)

\* the place of a draw step in the stated order: edge-cuts, nets, footprints,
\* silkscreen, fabrication
StepRank(step) ==
  CASE step.what = "edge-cuts" -> 1
    [] step.what \in {"tracks", "zones"} -> 2
    [] step.what \in {"drawings", "pads", "pad holes"} -> 3
    [] step.what = "silkscreen" -> 4
    [] OTHER -> 5

\* the place of a step inside its footprint: drawings, pads, pad holes
PartRank(step) ==
  CASE step.what = "drawings" -> 1 [] step.what = "pads" -> 2 [] OTHER -> 3

\* C28: in every background redraw of a layout surface the draw steps occur
\* in the order edge-cuts, nets (tracks, zones, if enabled), footprints (per
\* footprint: drawings, pads, pad holes), silkscreen, fabrication; in
\* particular the edge-cuts are drawn before any net or footprint.
C28_DrawOrder ==
  (calc.fn = "drawBackground" /\ calc.res # <<>>)
    => LET steps == calc.res[1]
       IN \A i, j \in DOMAIN steps :
            i < j
              => /\ StepRank(steps[i]) <= StepRank(steps[j])
                 /\ (StepRank(steps[i]) = 3 /\ StepRank(steps[j]) = 3
                       /\ steps[i].fp = steps[j].fp)
                      => PartRank(steps[i]) <= PartRank(steps[j])

\* C29: a pointer-up with button 0 or 1 whose pointer id has no recorded state
\* on that surface (removed by a preceding leave, out or cancel, or never
\* recorded) is handled without error and leaves the pointer map, the
\* transform and the Selection unchanged.
C29_UntrackedUpHarmless ==
  [][(last'.kind = "up" /\ last'.button \in {0, 1} /\ ~last'.tracked)
       => /\ ~last'.threw
          /\ pointerStates' = pointerStates
          /\ layerTransform' = layerTransform
          /\ current_selection' = current_selection]_vars

====
